---- MODULE Spec2Model ----
(***************************************************************************)
(* Model of the tech-interview-generator package: the single-stage        *)
(* generators, InterviewPipeline.forward, CompleteInterviewGenerator       *)
(* .forward (src/src/interview_generator/modules.py) and the start-up of   *)
(* the command-line script (src/generate_question.py).                     *)
(*                                                                         *)
(* The completion service (dspy.ChainOfThought bound to a signature) is an *)
(* opaque collaborator: each call either returns one of a few predictions  *)
(* carrying the signature's output fields or raises one of a few errors.   *)
(* Text is modelled by TLA+ strings, concatenated with \o.                 *)
(***************************************************************************)
EXTENDS Integers, Sequences, FiniteSets, TLC

VARIABLES
    pc,                \* position of the current invocation
    entry,             \* the operation the caller invoked
    kwargs,            \* keyword arguments supplied by the caller
    args,              \* parameters of forward after Python's argument binding
    calls,             \* calls made to the completion service in this invocation
    question_result,   \* InterviewPipeline.forward: question_result
    result,            \* CompleteInterviewGenerator.forward: result / ml_result
    main_question,     \* CompleteInterviewGenerator.forward: main_question
    followup_result,   \* followup_result of either pipeline
    difficulty_result, \* InterviewPipeline.forward: difficulty_result
    status,            \* "idle", "running", "returned" or "raised"
    ret,               \* the value returned to the caller
    err,               \* the exception that reached the caller
    invocations,       \* number of invocations started so far
    self,              \* the module object the invocation is made on
    next_id,           \* number of generator instances constructed so far
    reused,            \* self was constructed before an earlier invocation
    environ,           \* os.environ of the script's process
    api_key,           \* setup_dspy: api_key
    configured,        \* dspy.configure(lm=...) has run
    dotenv,            \* variables set by the .env file
    argv,              \* sys.argv[1:] of the script's process
    stdin,             \* lines the user types, in order
    consumed,          \* number of those lines the script has read
    stdout,            \* lines printed by the script
    exit_code          \* exit status of the script's process (-1: running)

vars == <<pc, entry, kwargs, args, calls, question_result, result,
          main_question, followup_result, difficulty_result, status, ret,
          err, invocations, self, next_id, reused, environ, dotenv, argv,
          api_key, configured, stdin, consumed, stdout, exit_code>>

libVars == <<pc, entry, kwargs, args, calls, question_result, result,
             main_question, followup_result, difficulty_result, status, ret,
             err>>

objVars == <<self, next_id, reused>>

cliVars == <<environ, dotenv, argv, api_key, configured, stdin, consumed,
            stdout, exit_code>>

(***************************************************************************)
(* Bounds of the model.                                                    *)
(***************************************************************************)
MaxInvocations == 2

(***************************************************************************)
(* Values.                                                                 *)
(***************************************************************************)
NoValue == [unset |-> TRUE]
NoError == [kind |-> "none", msg |-> ""]
NoKwargs == [p \in {} |-> ""]

Topics == {"", "graphs"}
QuestionTypes == {"coding", "ml_theory", "ml_practical", "system_design", "Coding"}
Difficulties == {"", "easy", "hard"}
FollowupCounts == {0, 2}
QuestionStyles == {"", "theoretical"}
OriginalQuestions == {"", "Explain BFS."}

SupportedTypes == {"coding", "ml_theory", "ml_practical"}

Generators == {"QuestionGenerator", "CodingQuestionGenerator",
               "MLQuestionGenerator", "FollowUpGenerator"}
Pipelines == {"InterviewPipeline", "CompleteInterviewGenerator"}

(***************************************************************************)
(* Signatures of the forward methods.                                      *)
(***************************************************************************)
Params(e) ==
    CASE e = "QuestionGenerator" -> {"topic", "question_type", "difficulty"}
      [] e = "CodingQuestionGenerator" -> {"topic", "difficulty"}
      [] e = "MLQuestionGenerator" -> {"topic", "difficulty", "question_style"}
      [] e = "FollowUpGenerator" -> {"original_question", "topic", "num_followups"}
      [] e = "InterviewPipeline" -> {"topic", "question_type", "difficulty", "num_followups"}
      [] e = "CompleteInterviewGenerator" -> {"topic", "question_type", "difficulty", "num_followups"}

\* Parameters that carry a default value, with that value.
Defaults(e) ==
    CASE e = "MLQuestionGenerator" -> [question_style |-> "mixed"]
      [] e = "FollowUpGenerator" -> [num_followups |-> 3]
      [] e = "InterviewPipeline" -> [num_followups |-> 3]
      [] e = "CompleteInterviewGenerator" -> [num_followups |-> 3]
      [] OTHER -> NoKwargs

Required(e) == Params(e) \ DOMAIN Defaults(e)

\* Complete keyword-argument records for e, one value per parameter.
FullKwargs(e) ==
    CASE e = "QuestionGenerator" ->
            [topic : Topics, question_type : QuestionTypes, difficulty : Difficulties]
      [] e = "CodingQuestionGenerator" ->
            [topic : Topics, difficulty : Difficulties]
      [] e = "MLQuestionGenerator" ->
            [topic : Topics, difficulty : Difficulties, question_style : QuestionStyles]
      [] e = "FollowUpGenerator" ->
            [original_question : OriginalQuestions, topic : Topics,
             num_followups : FollowupCounts]
      [] e \in {"InterviewPipeline", "CompleteInterviewGenerator"} ->
            [topic : Topics, question_type : QuestionTypes,
             difficulty : Difficulties, num_followups : FollowupCounts]

\* The keyword arguments a caller may supply to e: any subset of the
\* declared parameters.
KwargsFor(e) ==
    {[p \in S |-> full[p]] : full \in FullKwargs(e), S \in SUBSET Params(e)}

MissingArgumentError ==
    [kind |-> "TypeError", msg |-> "forward() missing required positional argument"]

\* Python binds the keyword arguments to forward's parameters: a parameter
\* that is not supplied takes its default; a parameter without default that
\* is not supplied makes the call raise TypeError before the body runs.
BindOk(e, k) == Required(e) \subseteq DOMAIN k

Bind(e, k) ==
    [p \in Params(e) |-> IF p \in DOMAIN k THEN k[p] ELSE Defaults(e)[p]]

(***************************************************************************)
(* The completion service.                                                 *)
(***************************************************************************)
GenerationErrors ==
    {[kind |-> "GenerationError", msg |-> "missing output field"],
     [kind |-> "ServiceError", msg |-> "request failed"]}

QuestionOutputs ==
    {[question |-> "Implement BFS.", explanation |-> "Tests traversal."],
     [question |-> "What is a DAG?", explanation |-> "Tests definitions."]}

CodingOutputs ==
    {[question_title |-> "Shortest Path",
      question_description |-> "Find the shortest path.",
      input_format |-> "n m edges",
      output_format |-> "distance",
      constraints |-> "n <= 1000",
      example |-> "3 2 -> 2"],
     [question_title |-> "Cycle",
      question_description |-> "Detect a cycle.",
      input_format |-> "adjacency list",
      output_format |-> "yes/no",
      constraints |-> "O(n)",
      example |-> ""]}

MLOutputs ==
    {[question |-> "Explain overfitting.", key_concepts |-> "variance",
      expected_depth |-> "deep"],
     [question |-> "Tune a model.", key_concepts |-> "validation",
      expected_depth |-> "shallow"]}

FollowUpOutputs ==
    {[followup_questions |-> "1. Why?\n2. How?"],
     [followup_questions |-> "1. Why?"]}

DifficultyOutputs ==
    {[assessed_difficulty |-> "easy", reasoning |-> "short"],
     [assessed_difficulty |-> "hard", reasoning |-> "long"]}

Outputs(gen) ==
    CASE gen = "QuestionGenerator" -> QuestionOutputs
      [] gen = "CodingQuestionGenerator" -> CodingOutputs
      [] gen = "MLQuestionGenerator" -> MLOutputs
      [] gen = "FollowUpGenerator" -> FollowUpOutputs
      [] gen = "difficulty_assessor" -> DifficultyOutputs

\* What one call of the completion service may produce.
Responses(gen) ==
    {[ok |-> TRUE, out |-> o, err |-> NoError] : o \in Outputs(gen)}
    \cup {[ok |-> FALSE, out |-> NoValue, err |-> e] : e \in GenerationErrors}

(***************************************************************************)
(* Module objects: __init__ constructs the generator instances an object   *)
(* holds; forward only reads them.                                         *)
(***************************************************************************)
NoObject == [class |-> "none", attrs |-> NoKwargs]

\* Number of generator instances __init__ of class e constructs.
InstanceCount(e) == IF e \in Pipelines THEN 3 ELSE 1

\* The object E() constructed when n generator instances exist already: its
\* attributes name the instances n+1, n+2, ...
Construct(e, n) ==
    [class |-> e,
     attrs |->
        CASE e = "InterviewPipeline" ->
                [question_gen |-> n + 1, followup_gen |-> n + 2,
                 difficulty_assessor |-> n + 3]
          [] e = "CompleteInterviewGenerator" ->
                [coding_gen |-> n + 1, ml_gen |-> n + 2, followup_gen |-> n + 3]
          [] OTHER -> [generate |-> n + 1]]

\* The attribute of an object of class e through which it calls gen.
Attr(e, gen) ==
    IF e \in Generators THEN "generate"
    ELSE CASE gen = "QuestionGenerator" -> "question_gen"
           [] gen = "FollowUpGenerator" -> "followup_gen"
           [] gen = "difficulty_assessor" -> "difficulty_assessor"
           [] gen = "CodingQuestionGenerator" -> "coding_gen"
           [] gen = "MLQuestionGenerator" -> "ml_gen"

\* The record of one call of the completion service, made through the
\* instance self holds for gen.
Call(gen, request, resp) ==
    [gen |-> gen, inst |-> self.attrs[Attr(self.class, gen)],
     request |-> request, ok |-> resp.ok, out |-> resp.out, err |-> resp.err]

(***************************************************************************)
(* Single-stage generators: forward passes its parameters, unchanged and   *)
(* unchecked, to self.generate.                                            *)
(***************************************************************************)
QuestionGenerator_request_defaulted(topic, question_type, difficulty) ==
    [topic |-> IF topic = "" THEN "general" ELSE topic,
     question_type |-> question_type, difficulty |-> difficulty]

QuestionGenerator_request(topic, question_type, difficulty) ==
    [topic |-> topic, question_type |-> question_type, difficulty |-> difficulty]

CodingQuestionGenerator_request(topic, difficulty) ==
    [topic |-> topic, difficulty |-> difficulty]

MLQuestionGenerator_request(topic, difficulty, question_style) ==
    [topic |-> topic, difficulty |-> difficulty, question_style |-> question_style]

FollowUpGenerator_request(original_question, topic, num_followups) ==
    [original_question |-> original_question, topic |-> topic,
     num_followups |-> num_followups]

\* The request a generator called directly sends, from its bound parameters.
GeneratorRequest(gen, a) ==
    CASE gen = "QuestionGenerator" ->
            QuestionGenerator_request(a.topic, a.question_type, a.difficulty)
      [] gen = "CodingQuestionGenerator" ->
            CodingQuestionGenerator_request(a.topic, a.difficulty)
      [] gen = "MLQuestionGenerator" ->
            MLQuestionGenerator_request(a.topic, a.difficulty, a.question_style)
      [] gen = "FollowUpGenerator" ->
            FollowUpGenerator_request(a.original_question, a.topic, a.num_followups)

Init ==
    /\ pc = "idle"
    /\ entry = "none"
    /\ kwargs = NoKwargs
    /\ args = NoValue
    /\ calls = <<>>
    /\ question_result = NoValue
    /\ result = NoValue
    /\ main_question = ""
    /\ followup_result = NoValue
    /\ difficulty_result = NoValue
    /\ status = "idle"
    /\ ret = NoValue
    /\ err = NoError
    /\ invocations = 0
    /\ self = NoObject
    /\ next_id = 0
    /\ reused = FALSE
    /\ environ = NoKwargs
    /\ dotenv = NoKwargs
    /\ argv = <<>>
    /\ api_key = <<>>
    /\ configured = FALSE
    /\ stdin = <<>>
    /\ consumed = 0
    /\ stdout = <<>>
    /\ exit_code = -1

Invoke_stale(e, k, firstPc) ==
    /\ pc \in {"idle", "done"}
    /\ entry # "generate_question.py"
    /\ invocations < MaxInvocations
    /\ invocations' = invocations + 1
    /\ \E reuse \in {r \in BOOLEAN : r => self.class = e} :
        /\ reused' = reuse
        /\ IF reuse
           THEN UNCHANGED <<self, next_id>>
           ELSE /\ self' = Construct(e, next_id)
                /\ next_id' = next_id + InstanceCount(e)
    /\ entry' = e
    /\ kwargs' = k
    /\ calls' = <<>>
    /\ question_result' = NoValue
    /\ result' = NoValue
    /\ main_question' = ""
    /\ followup_result' = NoValue
    /\ difficulty_result' = NoValue
    /\ ret' = ret
    /\ IF BindOk(e, k)
       THEN /\ args' = Bind(e, k)
            /\ pc' = firstPc
            /\ status' = "running"
            /\ err' = NoError
       ELSE /\ args' = NoValue
            /\ pc' = "done"
            /\ status' = "raised"
            /\ err' = MissingArgumentError
    /\ UNCHANGED cliVars

\* A caller invokes a module object of class e with keyword arguments k,
\* either an object it has just constructed or the object of class e that it
\* constructed for its previous invocation: a fresh frame, then Python's
\* argument binding.
Invoke(e, k, firstPc) ==
    /\ pc \in {"idle", "done"}
    /\ entry # "generate_question.py"
    /\ invocations < MaxInvocations
    /\ invocations' = invocations + 1
    /\ \E reuse \in {r \in BOOLEAN : r => self.class = e} :
        /\ reused' = reuse
        /\ IF reuse
           THEN UNCHANGED <<self, next_id>>
           ELSE /\ self' = Construct(e, next_id)
                /\ next_id' = next_id + InstanceCount(e)
    /\ entry' = e
    /\ kwargs' = k
    /\ calls' = <<>>
    /\ question_result' = NoValue
    /\ result' = NoValue
    /\ main_question' = ""
    /\ followup_result' = NoValue
    /\ difficulty_result' = NoValue
    /\ ret' = NoValue
    /\ IF BindOk(e, k)
       THEN /\ args' = Bind(e, k)
            /\ pc' = firstPc
            /\ status' = "running"
            /\ err' = NoError
       ELSE /\ args' = NoValue
            /\ pc' = "done"
            /\ status' = "raised"
            /\ err' = MissingArgumentError
    /\ UNCHANGED cliVars

\* generator(...) for one of the four single-stage generators.
CallGenerator ==
    \E gen \in Generators : \E k \in KwargsFor(gen) :
        Invoke(gen, k, "generate")

\* QuestionGenerator.forward, CodingQuestionGenerator.forward,
\* MLQuestionGenerator.forward, FollowUpGenerator.forward:
\* result = self.generate(...); return result
GeneratorForward ==
    /\ pc = "generate"
    /\ \E resp \in Responses(entry) :
        /\ calls' = Append(calls, Call(entry, GeneratorRequest(entry, args), resp))
        /\ status' = IF resp.ok THEN "returned" ELSE "raised"
        /\ ret' = resp.out
        /\ err' = resp.err
    /\ pc' = "done"
    /\ UNCHANGED <<entry, kwargs, args, question_result, result, main_question,
                   followup_result, difficulty_result, invocations>>
    /\ UNCHANGED objVars
    /\ UNCHANGED cliVars

(***************************************************************************)
(* Exceptions: neither forward contains a try statement, so a call that    *)
(* raises ends forward at once and the exception reaches the caller.       *)
(***************************************************************************)
AfterCall_continue(resp, nextPc) == nextPc

\* The position after a generator call: the next statement when the call
\* returned, the end of forward when it raised.
AfterCall(resp, nextPc) == IF resp.ok THEN nextPc ELSE "done"

Raise_wrapped(e) == [kind |-> "PipelineError", msg |-> e.msg]

\* The exception the caller sees when a generator call raised e.
Raise(e) == e

(***************************************************************************)
(* InterviewPipeline.forward                                               *)
(***************************************************************************)
CallInterviewPipeline ==
    \E k \in KwargsFor("InterviewPipeline") :
        Invoke("InterviewPipeline", k, "ip_question")

FollowUpRequest_topic(question, topic, num_followups) ==
    FollowUpGenerator_request(topic, topic, num_followups)

\* The keyword arguments both pipelines pass to self.followup_gen.
FollowUpRequest(question, topic, num_followups) ==
    FollowUpGenerator_request(question, topic, num_followups)

\* The keyword arguments passed to self.difficulty_assessor.
DifficultyRequest(question, topic) == [question |-> question, topic |-> topic]

PipelineResult_assessed(qr, difficulty, dr, fr) ==
    [question |-> qr.question,
     explanation |-> qr.explanation,
     requested_difficulty |-> dr.assessed_difficulty,
     assessed_difficulty |-> dr.assessed_difficulty,
     difficulty_reasoning |-> dr.reasoning,
     followup_questions |-> fr.followup_questions]

PipelineResult_nofollowups(qr, difficulty, dr, fr) ==
    [question |-> qr.question,
     explanation |-> qr.explanation,
     requested_difficulty |-> difficulty,
     assessed_difficulty |-> dr.assessed_difficulty,
     difficulty_reasoning |-> dr.reasoning,
     followup_questions |-> ""]

\* The dict returned by InterviewPipeline.forward.
PipelineResult(qr, difficulty, dr, fr) ==
    [question |-> qr.question,
     explanation |-> qr.explanation,
     requested_difficulty |-> difficulty,
     assessed_difficulty |-> dr.assessed_difficulty,
     difficulty_reasoning |-> dr.reasoning,
     followup_questions |-> fr.followup_questions]

\* question_result = self.question_gen(topic=..., question_type=..., difficulty=...)
IP_QuestionStage ==
    /\ pc = "ip_question"
    /\ \E resp \in Responses("QuestionGenerator") :
        /\ calls' = Append(calls, Call("QuestionGenerator",
                        QuestionGenerator_request(args.topic, args.question_type,
                                                  args.difficulty), resp))
        /\ question_result' = resp.out
        /\ pc' = AfterCall(resp, "ip_followup")
        /\ status' = IF resp.ok THEN status ELSE "raised"
        /\ err' = IF resp.ok THEN err ELSE Raise(resp.err)
    /\ UNCHANGED <<entry, kwargs, args, result, main_question, followup_result,
                   difficulty_result, ret, invocations>>
    /\ UNCHANGED objVars
    /\ UNCHANGED cliVars

\* followup_result = self.followup_gen(original_question=question_result.question, ...)
IP_FollowUpStage ==
    /\ pc = "ip_followup"
    /\ \E resp \in Responses("FollowUpGenerator") :
        /\ calls' = Append(calls, Call("FollowUpGenerator",
                        FollowUpRequest(question_result.question, args.topic,
                                        args.num_followups), resp))
        /\ followup_result' = resp.out
        /\ pc' = AfterCall(resp, "ip_difficulty")
        /\ status' = IF resp.ok THEN status ELSE "raised"
        /\ err' = IF resp.ok THEN err ELSE Raise(resp.err)
    /\ UNCHANGED <<entry, kwargs, args, question_result, result, main_question,
                   difficulty_result, ret, invocations>>
    /\ UNCHANGED objVars
    /\ UNCHANGED cliVars

\* difficulty_result = self.difficulty_assessor(question=..., topic=...)
\* return {...}
IP_DifficultyStage ==
    /\ pc = "ip_difficulty"
    /\ \E resp \in Responses("difficulty_assessor") :
        /\ calls' = Append(calls, Call("difficulty_assessor",
                        DifficultyRequest(question_result.question, args.topic),
                        resp))
        /\ difficulty_result' = resp.out
        /\ pc' = "done"
        /\ IF AfterCall(resp, "return") = "return"
           THEN /\ status' = "returned"
                /\ ret' = PipelineResult(question_result, args.difficulty,
                                         resp.out, followup_result)
                /\ err' = err
           ELSE /\ status' = "raised"
                /\ ret' = ret
                /\ err' = Raise(resp.err)
    /\ UNCHANGED <<entry, kwargs, args, question_result, result, main_question,
                   followup_result, invocations>>
    /\ UNCHANGED objVars
    /\ UNCHANGED cliVars

(***************************************************************************)
(* CompleteInterviewGenerator.forward                                      *)
(***************************************************************************)
CallCompleteInterviewGenerator ==
    \E k \in KwargsFor("CompleteInterviewGenerator") :
        Invoke("CompleteInterviewGenerator", k, "cig_dispatch")

NoBranch == [gen |-> "none", question_style |-> "none"]

Dispatch_default(question_type) ==
    IF question_type = "coding"
    THEN [gen |-> "CodingQuestionGenerator", question_style |-> "none"]
    ELSE IF question_type = "ml_theory"
    THEN [gen |-> "MLQuestionGenerator", question_style |-> "theoretical"]
    ELSE [gen |-> "MLQuestionGenerator", question_style |-> "practical"]

Dispatch_swapped(question_type) ==
    IF question_type = "coding"
    THEN [gen |-> "CodingQuestionGenerator", question_style |-> "none"]
    ELSE IF question_type = "ml_theory"
    THEN [gen |-> "MLQuestionGenerator", question_style |-> "practical"]
    ELSE IF question_type = "ml_practical"
    THEN [gen |-> "MLQuestionGenerator", question_style |-> "theoretical"]
    ELSE NoBranch

\* The if / elif / elif / else chain on question_type: the specialized
\* generator to call and the question_style it is given.
Dispatch(question_type) ==
    IF question_type = "coding"
    THEN [gen |-> "CodingQuestionGenerator", question_style |-> "none"]
    ELSE IF question_type = "ml_theory"
    THEN [gen |-> "MLQuestionGenerator", question_style |-> "theoretical"]
    ELSE IF question_type = "ml_practical"
    THEN [gen |-> "MLQuestionGenerator", question_style |-> "practical"]
    ELSE NoBranch

\* The keyword arguments the chosen branch passes to its generator.
SpecializedRequest(branch, topic, difficulty) ==
    IF branch.gen = "CodingQuestionGenerator"
    THEN CodingQuestionGenerator_request(topic, difficulty)
    ELSE MLQuestionGenerator_request(topic, difficulty, branch.question_style)

FormatCodingQuestion_swapped(r) ==
    r.question_title \o "\n\n" \o r.question_description
        \o "\n\nInput: " \o r.output_format
        \o "\nOutput: " \o r.input_format
        \o "\n\nConstraints: " \o r.constraints
        \o "\n\nExample:\n" \o r.example

\* The f-string that builds main_question from a coding result.
FormatCodingQuestion(r) ==
    r.question_title \o "\n\n" \o r.question_description
        \o "\n\nInput: " \o r.input_format
        \o "\nOutput: " \o r.output_format
        \o "\n\nConstraints: " \o r.constraints
        \o "\n\nExample:\n" \o r.example

\* main_question of the branch taken.
MainQuestion(branch, r) ==
    IF branch.gen = "CodingQuestionGenerator"
    THEN FormatCodingQuestion(r)
    ELSE r.question

UnknownTypeError_anonymous(question_type) ==
    [kind |-> "ValueError", msg |-> "Unknown question type"]

\* raise ValueError(f"Unknown question type: {question_type}")
UnknownTypeError(question_type) ==
    [kind |-> "ValueError", msg |-> "Unknown question type: " \o question_type]

CompleteResult_title(mq, r, difficulty, fr) ==
    [question |-> IF "question_title" \in DOMAIN r THEN r.question_title ELSE mq,
     details |-> r,
     difficulty |-> difficulty,
     followup_questions |-> fr.followup_questions]

\* The dict returned by CompleteInterviewGenerator.forward.
CompleteResult(mq, r, difficulty, fr) ==
    [question |-> mq,
     details |-> r,
     difficulty |-> difficulty,
     followup_questions |-> fr.followup_questions]

\* The dispatch on question_type with the call of the chosen generator, or
\* the raise of the else branch.
CIG_Dispatch ==
    /\ pc = "cig_dispatch"
    /\ LET branch == Dispatch(args.question_type) IN
       IF branch.gen = "none"
       THEN /\ pc' = "done"
            /\ status' = "raised"
            /\ err' = UnknownTypeError(args.question_type)
            /\ UNCHANGED <<calls, result, main_question>>
       ELSE \E resp \in Responses(branch.gen) :
            /\ calls' = Append(calls, Call(branch.gen,
                            SpecializedRequest(branch, args.topic, args.difficulty),
                            resp))
            /\ result' = resp.out
            /\ main_question' = IF resp.ok THEN MainQuestion(branch, resp.out)
                                ELSE main_question
            /\ pc' = AfterCall(resp, "cig_followup")
            /\ status' = IF resp.ok THEN status ELSE "raised"
            /\ err' = IF resp.ok THEN err ELSE Raise(resp.err)
    /\ UNCHANGED <<entry, kwargs, args, question_result, followup_result,
                   difficulty_result, ret, invocations>>
    /\ UNCHANGED objVars
    /\ UNCHANGED cliVars

\* followup_result = self.followup_gen(original_question=main_question, ...)
\* return {...}
CIG_FollowUpStage ==
    /\ pc = "cig_followup"
    /\ \E resp \in Responses("FollowUpGenerator") :
        /\ calls' = Append(calls, Call("FollowUpGenerator",
                        FollowUpRequest(main_question, args.topic,
                                        args.num_followups), resp))
        /\ followup_result' = resp.out
        /\ pc' = "done"
        /\ IF AfterCall(resp, "return") = "return"
           THEN /\ status' = "returned"
                /\ ret' = CompleteResult(main_question, result, args.difficulty,
                                         resp.out)
                /\ err' = err
           ELSE /\ status' = "raised"
                /\ ret' = ret
                /\ err' = Raise(resp.err)
    /\ UNCHANGED <<entry, kwargs, args, question_result, result, main_question,
                   difficulty_result, invocations>>
    /\ UNCHANGED objVars
    /\ UNCHANGED cliVars

(***************************************************************************)
(* The command-line script generate_question.py.                           *)
(***************************************************************************)
\* Names bound in the namespace of package interview_generator once its
\* __init__ has run: the two submodules and the names it imports from them.
PackageNamespace ==
    {"signatures", "modules",
     "GenerateQuestion", "GenerateFollowUp", "AssessDifficulty",
     "QuestionGenerator", "FollowUpGenerator", "InterviewPipeline"}

\* from interview_generator import CompleteInterviewGenerator, InterviewPipeline
ScriptImports == {"CompleteInterviewGenerator", "InterviewPipeline"}

\* The import statement succeeds when the package binds every imported name;
\* otherwise it raises ImportError while the script's module is loading.
ImportOk == ScriptImports \subseteq PackageNamespace

Environs ==
    {NoKwargs, [OPENAI_API_KEY |-> ""], [OPENAI_API_KEY |-> "sk-env"]}
DotenvFiles ==
    {NoKwargs, [OPENAI_API_KEY |-> ""], [OPENAI_API_KEY |-> "sk-file"]}
Argvs == {<<>>, <<"binary">>, <<"binary", "trees">>}

\* load_dotenv(): the variables of the .env file are added to the
\* environment; a variable the environment already has keeps its value.
load_dotenv(env, file) ==
    [k \in DOMAIN env \cup DOMAIN file |->
        IF k \in DOMAIN env THEN env[k] ELSE file[k]]

\* os.getenv(name): <<value>>, or <<>> for None.
getenv(env, name) == IF name \in DOMAIN env THEN <<env[name]>> ELSE <<>>

\* not api_key
Falsy(v) == v = <<>> \/ v[1] = ""

SetupMessage ==
    <<"Error: OPENAI_API_KEY not found!",
      "\nSetup instructions:",
      "1. Copy .env.example to .env",
      "2. Add your OpenAI API key to .env",
      "3. Run this script again">>

(***************************************************************************)
(* Text typed by the user: a line is a sequence of characters.             *)
(***************************************************************************)
\* A line standing for Ctrl-C: input() raises KeyboardInterrupt.
KeyboardInterrupt == <<"KeyboardInterrupt">>

Whitespace == {" ", "\t"}
DigitChars == {"0", "1", "2", "3", "4", "5", "6", "7", "8", "9"}

DigitValue(c) ==
    CASE c = "0" -> 0 [] c = "1" -> 1 [] c = "2" -> 2 [] c = "3" -> 3
      [] c = "4" -> 4 [] c = "5" -> 5 [] c = "6" -> 6 [] c = "7" -> 7
      [] c = "8" -> 8 [] c = "9" -> 9

\* The string made of the characters of a line.
RECURSIVE Str(_)
Str(chars) == IF chars = <<>> THEN "" ELSE chars[1] \o Str(Tail(chars))

RECURSIVE lstrip(_)
lstrip(chars) ==
    IF chars # <<>> /\ chars[1] \in Whitespace THEN lstrip(Tail(chars)) ELSE chars

RECURSIVE rstrip(_)
rstrip(chars) ==
    IF chars # <<>> /\ chars[Len(chars)] \in Whitespace
    THEN rstrip(SubSeq(chars, 1, Len(chars) - 1))
    ELSE chars

\* str.strip()
strip(chars) == rstrip(lstrip(chars))

\* The number written by digits and single underscores, most significant
\* digit first.
RECURSIVE DigitsValue(_, _)
DigitsValue(chars, acc) ==
    IF chars = <<>> THEN acc
    ELSE IF chars[1] = "_" THEN DigitsValue(Tail(chars), acc)
    ELSE DigitsValue(Tail(chars), 10 * acc + DigitValue(chars[1]))

\* A text int() accepts after its sign: digits that may be separated by
\* single underscores.
IsDecimal(body) ==
    /\ body # <<>>
    /\ body[1] \in DigitChars
    /\ body[Len(body)] \in DigitChars
    /\ \A i \in 1..Len(body) : body[i] \in DigitChars \cup {"_"}
    /\ \A i \in 1..(Len(body) - 1) : ~(body[i] = "_" /\ body[i + 1] = "_")

\* The stripped text without its optional sign.
Unsigned(t) == IF t # <<>> /\ t[1] \in {"+", "-"} THEN Tail(t) ELSE t

\* The value of a stripped text whose part after the sign is body.
SignedValue(t, body) ==
    [ok |-> IsDecimal(body),
     value |-> IF ~IsDecimal(body) THEN 0
               ELSE IF t[1] = "-" THEN 0 - DigitsValue(body, 0)
               ELSE DigitsValue(body, 0)]

\* int(text): an optional sign, then digits that may be separated by single
\* underscores, with whitespace allowed around; anything else is ValueError.
int(text) == SignedValue(strip(text), Unsigned(strip(text)))

\* " ".join(words)
RECURSIVE Join(_)
Join(words) ==
    IF words = <<>> THEN ""
    ELSE IF Len(words) = 1 THEN words[1]
    ELSE words[1] \o " " \o Join(Tail(words))

Rule60 == "============================================================"

\* print_banner()
Banner == <<"\n" \o Rule60, "       TECH INTERVIEW QUESTION GENERATOR", Rule60 \o "\n">>

\* The lines "1. option", "2. option", ... printed for a menu.
RECURSIVE MenuLines(_, _)
MenuLines(options, i) ==
    IF i > Len(options) THEN <<>>
    ELSE <<Str(<<CHOOSE c \in DigitChars : DigitValue(c) = i>>) \o ". " \o options[i]>>
            \o MenuLines(options, i + 1)

\* How a function of the script ends: it returns a value, or the process
\* exits through sys.exit, or an exception leaves it.
Returns(v, n, out) ==
    [kind |-> "return", value |-> v, consumed |-> n, stdout |-> out,
     exit_code |-> -1, err |-> NoError]
Exits(code, n, out) ==
    [kind |-> "exit", value |-> "", consumed |-> n, stdout |-> out,
     exit_code |-> code, err |-> NoError]
Raises(e, n, out) ==
    [kind |-> "raise", value |-> "", consumed |-> n, stdout |-> out,
     exit_code |-> 1, err |-> e]

EOFError == [kind |-> "EOFError", msg |-> "EOF when reading a line"]

\* The while loop of get_user_choice, reading the lines of input after the
\* first n.
RECURSIVE ChoiceLoop(_, _, _, _)
ChoiceLoop(options, input, n, out) ==
    LET prompted == Append(out, "\nEnter number: ") IN
    IF n >= Len(input) THEN Raises(EOFError, n, prompted)
    ELSE LET line == input[n + 1]
             idx == int(line).value - 1 IN
         IF line = KeyboardInterrupt \/ ~int(line).ok
         THEN Exits(0, n + 1, Append(prompted, "\nExiting..."))
         ELSE IF 0 <= idx /\ idx < Len(options)
         THEN Returns(options[idx + 1], n + 1, prompted)
         ELSE ChoiceLoop(options, input, n + 1,
                         Append(prompted, "Invalid choice. Try again."))

\* get_user_choice(prompt, options)
get_user_choice(prompt, options, input, n, out) ==
    ChoiceLoop(options, input, n, Append(out, prompt) \o MenuLines(options, 1))

\* get_text_input(prompt)
RECURSIVE get_text_input(_, _, _, _)
get_text_input(prompt, input, n, out) ==
    LET prompted == Append(out, prompt) IN
    IF n >= Len(input) THEN Raises(EOFError, n, prompted)
    ELSE LET line == input[n + 1] IN
         IF line = KeyboardInterrupt
         THEN Exits(0, n + 1, Append(prompted, "\nExiting..."))
         ELSE IF strip(line) # <<>>
         THEN Returns(Str(strip(line)), n + 1, prompted)
         ELSE get_text_input(prompt, input, n + 1,
                             Append(prompted, "Please enter a value."))

\* type_mapping of generate_question_interactive
type_mapping(label) ==
    CASE label = "Coding/Algorithms" -> "coding"
      [] label = "ML Theory" -> "ml_theory"
      [] label = "ML Practical" -> "ml_practical"

\* The script reaches generator(**k) on a new CompleteInterviewGenerator.
Invokes(k, n, out) ==
    [kind |-> "invoke", kwargs |-> k, consumed |-> n, stdout |-> out,
     exit_code |-> -1, err |-> NoError]

\* A function of the script ended the process: nothing is invoked.
Ends(r) ==
    [kind |-> r.kind, kwargs |-> NoKwargs, consumed |-> r.consumed,
     stdout |-> r.stdout, exit_code |-> r.exit_code, err |-> r.err]

\* generate_question_interactive(), up to the call of the generator.
generate_question_interactive(input) ==
    LET Generate(c1, c2, c3, c4) ==
            IF c4.kind # "return" THEN Ends(c4) ELSE
            Invokes([topic |-> c2.value,
                     question_type |-> type_mapping(c1.value),
                     difficulty |-> c3.value,
                     num_followups |-> int(<<c4.value>>).value],
                    c4.consumed,
                    c4.stdout \o <<"\n" \o Rule60,
                                   "Generating question... (this may take a few seconds)",
                                   Rule60 \o "\n">>)
        AskFollowups(c1, c2, c3) ==
            IF c3.kind # "return" THEN Ends(c3) ELSE
            Generate(c1, c2, c3,
                get_user_choice("\nHow many follow-up questions?",
                    <<"1", "2", "3", "4">>, input, c3.consumed, c3.stdout))
        AskDifficulty(c1, c2) ==
            IF c2.kind # "return" THEN Ends(c2) ELSE
            AskFollowups(c1, c2,
                get_user_choice("\nDifficulty level?", <<"easy", "medium", "hard">>,
                    input, c2.consumed, c2.stdout))
        AskTopic(c1) ==
            IF c1.kind # "return" THEN Ends(c1) ELSE
            AskDifficulty(c1,
                get_text_input("Topic: ", input, c1.consumed,
                    Append(c1.stdout,
                        "\nWhat topic? (e.g., 'binary trees', 'neural networks', 'gradient descent')")))
    IN AskTopic(get_user_choice("What type of question do you want?",
                    <<"Coding/Algorithms", "ML Theory", "ML Practical">>,
                    input, 0, Banner))

\* generate_question_quick(topic), up to the call of the generator.
generate_question_quick(topic) ==
    Invokes([topic |-> topic, question_type |-> "coding",
             difficulty |-> "medium", num_followups |-> 2],
            0,
            Append(Banner, "Generating medium coding question on: " \o topic \o "\n"))

\* main() after setup_dspy().
main(av, input) ==
    IF Len(av) > 0
    THEN generate_question_quick(Join(av))
    ELSE generate_question_interactive(input)

\* The lines a user may type.
Stdins ==
    {<<>>,
     <<<<"a", "b">>>>,
     <<<<"3">>, <<"d", "p">>, <<"1">>, <<"1">>>>,
     <<<<"5">>, <<"1">>, <<"d", "p">>, <<"2">>, <<"3">>>>,
     <<<<"1">>, <<>>, <<" ">>, <<"d", "p">>, <<"2">>, <<"4">>>>,
     <<<<" ", "2", " ">>, <<" ", "d", "p", " ">>, <<"0">>, <<"3">>, <<"2">>>>,
     <<<<"2">>, <<"d", "p">>, <<"x">>>>,
     <<<<"1">>, KeyboardInterrupt>>,
     <<<<"2">>, <<"d", "p">>, <<"2">>>>,
     <<<<"-", "1">>, <<"1">>, <<"d", "p">>, <<"3">>, <<"5">>, <<"1">>>>}

\* python generate_question.py [words...]: the module-level import, then
\* main() up to the call of the generator; the generator's forward then
\* runs as CIG_Dispatch and CIG_FollowUpStage.
RunScript ==
    /\ pc = "idle"
    /\ invocations = 0
    /\ \E env \in Environs, file \in DotenvFiles, av \in Argvs, input \in Stdins :
        /\ argv' = av
        /\ dotenv' = file
        /\ stdin' = input
        /\ entry' = "generate_question.py"
        /\ IF ~ImportOk
           THEN \* uncaught ImportError: traceback on stderr, exit status 1
                /\ environ' = env
                /\ api_key' = <<>>
                /\ configured' = FALSE
                /\ consumed' = 0
                /\ stdout' = <<>>
                /\ exit_code' = 1
                /\ pc' = "exited"
                /\ status' = "raised"
                /\ err' = [kind |-> "ImportError",
                           msg |-> "cannot import name 'CompleteInterviewGenerator' from 'interview_generator'"]
                /\ UNCHANGED <<kwargs, args, invocations, self, next_id>>
           ELSE LET loaded == load_dotenv(env, file)
                    key == getenv(loaded, "OPENAI_API_KEY") IN
                /\ environ' = loaded
                /\ api_key' = key
                /\ IF Falsy(key)
                   THEN /\ stdout' = SetupMessage
                        /\ exit_code' = 1
                        /\ configured' = FALSE
                        /\ consumed' = 0
                        /\ pc' = "exited"
                        /\ status' = "exited"
                        /\ err' = err
                        /\ UNCHANGED <<kwargs, args, invocations, self, next_id>>
                   ELSE LET m == main(av, input) IN
                        /\ configured' = TRUE
                        /\ stdout' = m.stdout
                        /\ consumed' = m.consumed
                        /\ exit_code' = m.exit_code
                        /\ err' = m.err
                        /\ IF m.kind = "invoke"
                           THEN /\ self' = Construct("CompleteInterviewGenerator", next_id)
                                /\ next_id' = next_id + InstanceCount("CompleteInterviewGenerator")
                                /\ invocations' = invocations + 1
                                /\ kwargs' = m.kwargs
                                /\ args' = Bind("CompleteInterviewGenerator", m.kwargs)
                                /\ pc' = "cig_dispatch"
                                /\ status' = "running"
                           ELSE /\ pc' = "exited"
                                /\ status' = IF m.kind = "raise" THEN "raised" ELSE "exited"
                                /\ UNCHANGED <<kwargs, args, invocations, self, next_id>>
    /\ UNCHANGED <<calls, question_result, result, main_question,
                   followup_result, difficulty_result, ret, reused>>

(***************************************************************************)
(* Properties.                                                             *)
(***************************************************************************)
Bound == args # NoValue

SpecializedGenerators == {"CodingQuestionGenerator", "MLQuestionGenerator"}

\* Number of calls in the log made to a generator of set G.
RECURSIVE CountCalls(_, _)
CountCalls(log, G) ==
    IF log = <<>> THEN 0
    ELSE (IF log[1].gen \in G THEN 1 ELSE 0) + CountCalls(Tail(log), G)

\* C1: for a question_type outside {"coding", "ml_theory", "ml_practical"}
\* CompleteInterviewGenerator.forward raises an error that names the type,
\* returns nothing, and calls neither the coding, the ML nor the follow-up
\* generator.
C1_UnsupportedTypeRaises ==
    (entry = "CompleteInterviewGenerator" /\ Bound
        /\ args.question_type \notin SupportedTypes)
    => /\ calls = <<>>
       /\ ret = NoValue
       /\ pc \in {"cig_dispatch", "done"}
       /\ pc = "done" =>
            /\ status = "raised"
            /\ err.kind = "ValueError"
            /\ err.msg = "Unknown question type: " \o kwargs.question_type

C1_Witness ==
    /\ entry = "CompleteInterviewGenerator"
    /\ Bound
    /\ args.question_type = "system_design"
    /\ pc = "done"
    /\ status = "raised"

\* C2: when the question stage of InterviewPipeline.forward fails, the
\* follow-up generator and the difficulty assessor are not called and
\* nothing is returned.
C2_QuestionFailureStopsPipeline ==
    (entry = "InterviewPipeline" /\ Len(calls) >= 1 /\ ~calls[1].ok)
    => /\ Len(calls) = 1
       /\ calls[1].gen = "QuestionGenerator"
       /\ pc = "done"
       /\ status = "raised"
       /\ ret = NoValue

C2_Witness ==
    /\ entry = "InterviewPipeline"
    /\ Len(calls) = 1
    /\ ~calls[1].ok
    /\ status = "raised"

IP_Order == <<"QuestionGenerator", "FollowUpGenerator", "difficulty_assessor">>

\* C4: InterviewPipeline.forward calls the question generator, the follow-up
\* generator and the difficulty assessor in that order, once each; the
\* follow-up generator gets stage 1's question with the caller's topic and
\* num_followups, the assessor gets the same question and topic; a result
\* exists only after all three calls returned.
C4_ThreeCallsInOrder ==
    entry = "InterviewPipeline"
    => /\ Len(calls) <= 3
       /\ \A i \in 1..Len(calls) : calls[i].gen = IP_Order[i]
       /\ Len(calls) >= 2 =>
            calls[2].request =
                [original_question |-> question_result.question,
                 topic |-> kwargs.topic,
                 num_followups |-> IF "num_followups" \in DOMAIN kwargs
                                   THEN kwargs.num_followups ELSE 3]
       /\ Len(calls) >= 3 =>
            calls[3].request = [question |-> question_result.question,
                                topic |-> kwargs.topic]
       /\ (status = "returned" \/ ret # NoValue) =>
            /\ Len(calls) = 3
            /\ \A i \in 1..3 : calls[i].ok
            /\ question_result \in QuestionOutputs

C4_Witness ==
    /\ entry = "InterviewPipeline"
    /\ status = "returned"
    /\ Len(calls) = 3
    /\ calls[2].request.original_question = "What is a DAG?"
    /\ calls[2].request.num_followups = 2

\* C5: for a supported question_type CompleteInterviewGenerator.forward
\* calls exactly one specialized generator: the coding generator with
\* (topic, difficulty) for "coding", the ML generator with style
\* "theoretical" for "ml_theory" and "practical" for "ml_practical"; in the
\* ML cases main_question is the question field of the ML result.
C5_OneSpecializedGenerator ==
    (entry = "CompleteInterviewGenerator" /\ Bound
        /\ args.question_type \in SupportedTypes)
    => /\ CountCalls(calls, SpecializedGenerators)
            = (IF pc = "cig_dispatch" THEN 0 ELSE 1)
       /\ pc # "cig_dispatch" =>
            /\ kwargs.question_type = "coding" =>
                /\ calls[1].gen = "CodingQuestionGenerator"
                /\ calls[1].request = [topic |-> kwargs.topic,
                                       difficulty |-> kwargs.difficulty]
            /\ kwargs.question_type = "ml_theory" =>
                /\ calls[1].gen = "MLQuestionGenerator"
                /\ calls[1].request = [topic |-> kwargs.topic,
                                       difficulty |-> kwargs.difficulty,
                                       question_style |-> "theoretical"]
            /\ kwargs.question_type = "ml_practical" =>
                /\ calls[1].gen = "MLQuestionGenerator"
                /\ calls[1].request = [topic |-> kwargs.topic,
                                       difficulty |-> kwargs.difficulty,
                                       question_style |-> "practical"]
            /\ (kwargs.question_type # "coding" /\ calls[1].ok) =>
                /\ result \in MLOutputs
                /\ main_question = result.question

C5_Witness ==
    /\ entry = "CompleteInterviewGenerator"
    /\ Bound
    /\ args.question_type = "ml_practical"
    /\ Len(calls) = 2
    /\ calls[1].request.question_style = "practical"
    /\ main_question = "Tune a model."

\* C6: for a supported type, CompleteInterviewGenerator.forward calls the
\* follow-up generator once with (main_question, topic, num_followups), and
\* returns question = main_question, details = the specialized generator's
\* whole result, difficulty = the caller's difficulty, followup_questions =
\* the follow-up generator's output.
C6_CompleteResult ==
    entry = "CompleteInterviewGenerator"
    => /\ CountCalls(calls, {"FollowUpGenerator"}) <= 1
       /\ status = "returned" =>
            /\ Len(calls) = 2
            /\ calls[1].gen \in SpecializedGenerators
            /\ calls[2].gen = "FollowUpGenerator"
            /\ calls[2].request =
                [original_question |-> main_question,
                 topic |-> kwargs.topic,
                 num_followups |-> IF "num_followups" \in DOMAIN kwargs
                                   THEN kwargs.num_followups ELSE 3]
            /\ ret.question = main_question
            /\ ret.question = calls[2].request.original_question
            /\ ret.details = result
            /\ ret.details \in Outputs(calls[1].gen)
            /\ ret.difficulty = kwargs.difficulty
            /\ followup_result \in FollowUpOutputs
            /\ ret.followup_questions = followup_result.followup_questions

C6_Witness ==
    /\ entry = "CompleteInterviewGenerator"
    /\ status = "returned"
    /\ kwargs.question_type = "coding"
    /\ ret.details.question_title = "Shortest Path"
    /\ ret.difficulty = "hard"
    /\ ret.followup_questions = "1. Why?"

\* C7: for "coding", main_question is title, description, input_format,
\* output_format, constraints and example, in that order, each once, joined
\* by the literal text of the template.
C7_CodingQuestionTemplate ==
    (entry = "CompleteInterviewGenerator" /\ Bound
        /\ args.question_type = "coding" /\ Len(calls) >= 1 /\ calls[1].ok)
    => /\ result \in CodingOutputs
       /\ main_question =
            result.question_title \o "\n\n"
            \o result.question_description \o "\n\n"
            \o "Input: " \o result.input_format \o "\n"
            \o "Output: " \o result.output_format \o "\n\n"
            \o "Constraints: " \o result.constraints \o "\n\n"
            \o "Example:\n" \o result.example
       /\ Len(main_question) =
            Len(result.question_title) + Len(result.question_description)
            + Len(result.input_format) + Len(result.output_format)
            + Len(result.constraints) + Len(result.example) + 46
       /\ status = "returned" => ret.question = main_question

C7_Witness ==
    /\ entry = "CompleteInterviewGenerator"
    /\ status = "returned"
    /\ kwargs.question_type = "coding"
    /\ ret.question = "Shortest Path\n\nFind the shortest path.\n\nInput: n m edges\nOutput: distance\n\nConstraints: n <= 1000\n\nExample:\n3 2 -> 2"

\* C8: in both pipelines a generator call that fails ends the invocation:
\* it is the last call made (no retry, no later stage), its error reaches
\* the caller as it was raised, and nothing is returned.
C8_FailureAborts ==
    (entry \in Pipelines /\ \E i \in 1..Len(calls) : ~calls[i].ok)
    => /\ \A i \in 1..(Len(calls) - 1) : calls[i].ok
       /\ \A i, j \in 1..Len(calls) : calls[i].gen = calls[j].gen => i = j
       /\ pc = "done"
       /\ status = "raised"
       /\ err = calls[Len(calls)].err
       /\ err \in GenerationErrors
       /\ ret = NoValue

\* a middle stage of InterviewPipeline failed
C8_Witness ==
    /\ entry = "InterviewPipeline"
    /\ Len(calls) = 2
    /\ calls[1].ok
    /\ ~calls[2].ok
    /\ err.kind = "ServiceError"

\* the last stage of CompleteInterviewGenerator failed
C8_WitnessLast ==
    /\ entry = "CompleteInterviewGenerator"
    /\ Len(calls) = 2
    /\ ~calls[2].ok
    /\ status = "raised"

\* Some parameter without default is not supplied by the caller.
MissingInput == ~(Required(entry) \subseteq DOMAIN kwargs)

\* Some supplied text parameter is the empty string.
EmptyInput == \E p \in DOMAIN kwargs \ {"num_followups"} : kwargs[p] = ""

\* C9 as stated: a single-stage generator given a missing or empty required
\* input fails, and does so before any call to the completion service.
C9_EmptyOrMissingInputRejected ==
    (entry \in Generators /\ pc = "done" /\ (MissingInput \/ EmptyInput))
    => /\ status = "raised"
       /\ calls = <<>>

\* C9 as amended: a single-stage generator called without a parameter that
\* has no default raises TypeError before any call to the completion
\* service; called with every such parameter, empty or not, it makes exactly
\* one completion-service call that carries the supplied values unchanged,
\* and returns or raises as that call does.
C9_MissingRejectedEmptyForwarded ==
    (entry \in Generators /\ pc = "done")
    => /\ MissingInput =>
            /\ status = "raised"
            /\ err.kind = "TypeError"
            /\ calls = <<>>
            /\ ret = NoValue
       /\ ~MissingInput =>
            /\ Len(calls) = 1
            /\ calls[1].gen = entry
            /\ DOMAIN calls[1].request = Params(entry)
            /\ \A p \in DOMAIN kwargs : calls[1].request[p] = kwargs[p]
            /\ status = (IF calls[1].ok THEN "returned" ELSE "raised")
            /\ calls[1].ok => ret \in Outputs(entry)
            /\ ~calls[1].ok => err = calls[1].err

\* an empty topic reached the completion service and a question came back
C9_Witness ==
    /\ entry = "QuestionGenerator"
    /\ pc = "done"
    /\ "topic" \in DOMAIN kwargs
    /\ kwargs.topic = ""
    /\ Len(calls) = 1
    /\ calls[1].request.topic = ""
    /\ status = "returned"

\* a call without its topic was rejected before any completion-service call
C9_WitnessMissing ==
    /\ entry = "FollowUpGenerator"
    /\ pc = "done"
    /\ "topic" \notin DOMAIN kwargs
    /\ err.kind = "TypeError"
    /\ calls = <<>>

\* The credential the script would see: the environment's, else the .env
\* file's.
CredentialAbsent ==
    Falsy(getenv(load_dotenv(environ, dotenv), "OPENAI_API_KEY"))

\* C10: run without the credential, the script prints the setup message and
\* exits with status 1 without invoking any pipeline or generator; and no
\* run invokes a pipeline before the completion backend is configured.
C10_MissingCredentialReported ==
    entry = "generate_question.py"
    => /\ CredentialAbsent =>
            /\ pc = "exited"
            /\ exit_code = 1
            /\ stdout = SetupMessage
            /\ calls = <<>>
       /\ calls # <<>> => configured

\* What the caller of the current invocation has observed.
Outcome == [status |-> status, ret |-> ret, err |-> err]

\* The response a logged call received.
ResponseOf(c) == [ok |-> c.ok, out |-> c.out, err |-> c.err]

\* The outcome of InterviewPipeline.forward were the difficulty assessor
\* called before the follow-up generator, for keyword arguments k, stage 1
\* output q and the responses rf and rd of the two later stages.
SwappedOutcome(k, q, rf, rd) ==
    IF ~rd.ok THEN [status |-> "raised", ret |-> NoValue, err |-> rd.err]
    ELSE IF ~rf.ok THEN [status |-> "raised", ret |-> NoValue, err |-> rf.err]
    ELSE [status |-> "returned",
          ret |-> [question |-> q.question,
                   explanation |-> q.explanation,
                   requested_difficulty |-> k.difficulty,
                   assessed_difficulty |-> rd.out.assessed_difficulty,
                   difficulty_reasoning |-> rd.out.reasoning,
                   followup_questions |-> rf.out.followup_questions],
          err |-> NoError]

\* The outcomes possible were the two stages run concurrently: both calls
\* are made, and when both fail either error may be the one reported.
ConcurrentOutcomes(k, q, rf, rd) ==
    IF rd.ok /\ rf.ok THEN {SwappedOutcome(k, q, rf, rd)}
    ELSE {[status |-> "raised", ret |-> NoValue, err |-> r.err] :
            r \in {x \in {rf, rd} : ~x.ok}}

\* The responses stage 3 may give in the current invocation: the one it gave
\* when it was called, any response when it was not.
Stage3Responses ==
    IF Len(calls) >= 3 THEN {ResponseOf(calls[3])}
    ELSE Responses("difficulty_assessor")

\* C12 as stated: whatever stages 2 and 3 respond, failures included, the
\* outcome of InterviewPipeline.forward is the outcome of running the two
\* stages in the opposite order and the only outcome of running them
\* concurrently.
C12_StageOrderUnobservable ==
    (entry = "InterviewPipeline" /\ pc = "done" /\ Len(calls) >= 2)
    => \A rd \in Stage3Responses :
        /\ Outcome = SwappedOutcome(kwargs, calls[1].out, ResponseOf(calls[2]), rd)
        /\ ConcurrentOutcomes(kwargs, calls[1].out, ResponseOf(calls[2]), rd)
                = {Outcome}

\* C12 as amended: the opposite order and the concurrent run give the same
\* result when stages 2 and 3 both succeed and the same error when exactly
\* one of them fails; when both fail, the source's order reports the
\* follow-up stage's error without calling the difficulty assessor, while
\* the opposite order reports the assessor's error and a concurrent run may
\* report either.
C12_StageOrderObservableOnDoubleFailure ==
    (entry = "InterviewPipeline" /\ pc = "done" /\ Len(calls) >= 2)
    => \A rd \in Stage3Responses :
        LET rf == ResponseOf(calls[2])
            swapped == SwappedOutcome(kwargs, calls[1].out, rf, rd)
            concurrent == ConcurrentOutcomes(kwargs, calls[1].out, rf, rd)
        IN /\ (rf.ok /\ rd.ok) =>
                /\ status = "returned"
                /\ Outcome = swapped
                /\ concurrent = {Outcome}
           /\ (rf.ok # rd.ok) =>
                /\ status = "raised"
                /\ Outcome = swapped
                /\ concurrent = {Outcome}
           /\ (~rf.ok /\ ~rd.ok) =>
                /\ Len(calls) = 2
                /\ Outcome = [status |-> "raised", ret |-> NoValue, err |-> rf.err]
                /\ swapped = [status |-> "raised", ret |-> NoValue, err |-> rd.err]
                /\ Outcome \in concurrent
                /\ swapped \in concurrent

\* the follow-up stage failed, so the assessor, never called, may have
\* failed with the other error
C12_Witness ==
    /\ entry = "InterviewPipeline"
    /\ pc = "done"
    /\ Len(calls) = 2
    /\ ~calls[2].ok
    /\ err.kind = "GenerationError"
    /\ \E rd \in Stage3Responses : ~rd.ok /\ rd.err # err

\* both later stages succeeded
C12_WitnessSuccess ==
    /\ entry = "InterviewPipeline"
    /\ status = "returned"
    /\ Len(calls) = 3

\* The instances the object of the current invocation holds.
InstancesOf(o) == {o.attrs[a] : a \in DOMAIN o.attrs}

\* The outcome of an invocation of pipeline e as a function of its keyword
\* arguments and of the responses its calls received.
ExpectedOutcome(e, k, log) ==
    IF ~(Required(e) \subseteq DOMAIN k)
    THEN [status |-> "raised", ret |-> NoValue, err |-> MissingArgumentError]
    ELSE IF e = "CompleteInterviewGenerator" /\ k.question_type \notin SupportedTypes
    THEN [status |-> "raised", ret |-> NoValue,
          err |-> [kind |-> "ValueError",
                   msg |-> "Unknown question type: " \o k.question_type]]
    ELSE IF \E i \in 1..Len(log) : ~log[i].ok
    THEN [status |-> "raised", ret |-> NoValue, err |-> log[Len(log)].err]
    ELSE [status |-> "returned",
          ret |-> IF e = "InterviewPipeline"
                  THEN [question |-> log[1].out.question,
                        explanation |-> log[1].out.explanation,
                        requested_difficulty |-> k.difficulty,
                        assessed_difficulty |-> log[3].out.assessed_difficulty,
                        difficulty_reasoning |-> log[3].out.reasoning,
                        followup_questions |-> log[2].out.followup_questions]
                  ELSE [question |-> log[2].request.original_question,
                        details |-> log[1].out,
                        difficulty |-> k.difficulty,
                        followup_questions |-> log[2].out.followup_questions],
          err |-> NoError]

\* C13 as stated: every pipeline invocation is made on generator instances
\* constructed for it, and its outcome is a function of its own inputs and
\* of the responses it received.
C13_OwnInstancesPerInvocation ==
    entry \in Pipelines
    => /\ ~reused
       /\ pc = "done" => Outcome = ExpectedOutcome(entry, kwargs, calls)

\* C13 as amended: the generator instances are constructed once per pipeline
\* object, by __init__, and every invocation made on the object calls those
\* same instances; forward does not construct or replace them, and the
\* outcome of an invocation is a function of its own inputs and of the
\* responses it received, whatever earlier invocations did.
C13_InstancesPerObject ==
    entry \in Pipelines
    => /\ \E n \in 0..next_id : self = Construct(entry, n)
       /\ \A a \in InstancesOf(self) : a \in 1..next_id
       /\ ~reused => InstancesOf(self)
                        = (next_id - InstanceCount(entry) + 1)..next_id
       /\ \A i \in 1..Len(calls) :
            calls[i].inst = self.attrs[Attr(entry, calls[i].gen)]
       /\ pc = "done" => Outcome = ExpectedOutcome(entry, kwargs, calls)

\* a second invocation on the same CompleteInterviewGenerator object returned
C13_Witness ==
    /\ entry = "CompleteInterviewGenerator"
    /\ invocations = 2
    /\ reused
    /\ status = "returned"
    /\ Len(calls) = 2
    /\ calls[2].inst = 3

Script == "generate_question.py"

Printed(line) == \E i \in 1..Len(stdout) : stdout[i] = line

\* C11: given command-line arguments (and the credential), the script
\* invokes CompleteInterviewGenerator exactly once, with the arguments joined
\* in order as topic, question_type "coding", difficulty "medium" and
\* num_followups 2, and never prompts the user.
C11_QuickModeInvokesOnce ==
    (entry = Script /\ argv # <<>> /\ ~CredentialAbsent)
    => /\ invocations = 1
       /\ self.class = "CompleteInterviewGenerator"
       /\ kwargs = [topic |-> Join(argv), question_type |-> "coding",
                    difficulty |-> "medium", num_followups |-> 2]
       /\ consumed = 0
       /\ ~Printed("\nEnter number: ")
       /\ ~Printed("Topic: ")

\* The first line typed is not a number (or is Ctrl-C).
FirstEntryNotNumeric ==
    stdin # <<>> /\ (stdin[1] = KeyboardInterrupt \/ ~int(stdin[1]).ok)

\* The first line typed is a number that is not one of the three menu items.
FirstEntryOutOfRange ==
    /\ stdin # <<>>
    /\ stdin[1] # KeyboardInterrupt
    /\ int(stdin[1]).ok
    /\ int(stdin[1]).value \notin 1..3

\* C14: without command-line arguments (and with the credential), whatever
\* the user types, the script invokes CompleteInterviewGenerator at most
\* once and only with a non-empty topic, a supported question_type, a
\* difficulty among easy, medium and hard, and 1 to 4 follow-ups; a menu
\* number out of range is asked again, a menu entry that is not a number ends
\* the process with exit status 0 and no generator call, and the unknown
\* question type error does not occur.
C14_InteractiveInputsValidated ==
    (entry = Script /\ argv = <<>> /\ ~CredentialAbsent)
    => /\ invocations <= 1
       /\ invocations = 1 =>
            /\ self.class = "CompleteInterviewGenerator"
            /\ DOMAIN kwargs = {"topic", "question_type", "difficulty", "num_followups"}
            /\ kwargs.topic # ""
            /\ kwargs.question_type \in SupportedTypes
            /\ kwargs.difficulty \in {"easy", "medium", "hard"}
            /\ kwargs.num_followups \in 1..4
       /\ invocations = 0 => calls = <<>>
       /\ FirstEntryNotNumeric =>
            /\ pc = "exited"
            /\ exit_code = 0
            /\ consumed = 1
            /\ invocations = 0
       /\ FirstEntryOutOfRange =>
            /\ Printed("Invalid choice. Try again.")
            /\ consumed >= 2 \/ (Len(stdin) = 1 /\ err.kind = "EOFError")
       /\ err.kind # "ValueError"

Next ==
    \/ CallGenerator
    \/ GeneratorForward
    \/ CallInterviewPipeline
    \/ IP_QuestionStage
    \/ IP_FollowUpStage
    \/ IP_DifficultyStage
    \/ CallCompleteInterviewGenerator
    \/ CIG_Dispatch
    \/ CIG_FollowUpStage
    \/ RunScript

Spec == Init /\ [][Next]_vars
====
